---- MODULE Spec2Model ----
(***************************************************************************)
(* The conversation state of the AnthropicAPI cog (src/src/anthropic_api.py) *)
(* as a state machine.  Every handler is an asyncio coroutine: the code      *)
(* between two awaits that suspend runs atomically and is one action; the    *)
(* resolution of an await (defer, attachment fetch, messages.create, a       *)
(* platform send) is the next action of that handler.  Handlers of different *)
(* invocations interleave at those awaits.  The keep_typing coroutine of a   *)
(* handler and the shared aiohttp session (_get_http_session, cog_unload)    *)
(* are part of the state; their own steps are scheduled in SpecTyping and    *)
(* SpecHttp.                                                                 *)
(***************************************************************************)
EXTENDS Integers, Sequences, FiniteSets, TLC

\* ---------------------------------------------------------------- bounds
MaxConverse == 2
MaxMessages == 2
MaxAttachments == 1
MaxInFlight == 2
MaxInvocations == 2
MaxRaceInvocations == 3
MaxSignals == 2
MaxContentAttachments == 2

\* The longest error description on_message reports unshortened.
MaxErrorDescription == 4000

\* The functions of util.py are applied to texts of at most MaxTextLen
\* characters, with chunk sizes up to MaxChunkSize.
MaxTextLen == 5
MaxChunkSize == 3

\* The classifier is applied to payloads of at most MaxPayloadLen bytes.
MaxPayloadLen == 2

\* ---------------------------------------------------------------- inputs
BotUser == "bot"
Users == {"alice", "bob", BotUser}
Channels == {"general", "random"}
NoChannel == "None"
\* A MIME type "major/minor" is the pair <<major, minor>>; the empty content
\* type (attachment.content_type or "") is <<"", "">>.
\* MIME types the handlers are driven with: one supported, one unsupported.
MimeTypes == {<<"image", "png">>, <<"application", "zip">>}
ConverseIds == 1..MaxConverse
MessageIds == 1..MaxMessages

\* ------------------------------------------------- attachment classifier
SUPPORTED_IMAGE_TYPES ==
    {<<"image", "jpeg">>, <<"image", "png">>, <<"image", "gif">>, <<"image", "webp">>}
SUPPORTED_DOCUMENT_TYPES ==
    {<<"application", "pdf">>, <<"text", "plain">>, <<"text", "markdown">>,
     <<"text", "csv">>}
NoBlock == "None"

\* Mutant of build_attachment_content_block: every type that is not an
\* image or a PDF is read as text.
build_attachment_content_block_TextByDefault(content_type) ==
    IF content_type \in SUPPORTED_IMAGE_TYPES THEN "image"
    ELSE IF content_type = <<"application", "pdf">> THEN "document"
    ELSE "text"

\* build_attachment_content_block, by the type of the block it returns.
build_attachment_content_block(content_type) ==
    IF content_type \in SUPPORTED_IMAGE_TYPES THEN "image"
    ELSE IF content_type = <<"application", "pdf">> THEN "document"
    ELSE IF \/ content_type \in SUPPORTED_DOCUMENT_TYPES
            \/ content_type[1] = "text"
         THEN "text"
    ELSE NoBlock

\* -------------------------------------------------------------- responses
\* What client.messages.create resolves to: an error, or a response whose
\* first content block is a short text, a text long enough for two chunks,
\* an empty text, or a response with no content block at all.
ApiResults == {"error", "short", "long", "blank", "nocontent"}

response_text(r) == IF r = "nocontent" THEN "No response." ELSE r

\* append_response_embeds: the number of embeds it appends for a text.
NumEmbeds(text) ==
    IF text = "blank" THEN 0 ELSE IF text = "long" THEN 2 ELSE 1

\* An optional value: None is the empty list, a value the list of it.
None == <<>>
Some(x) == <<x>>

\* ---------------------------------------------------------------- util.py
\* A string whose characters matter is the sequence of its characters.
Chars == {"a", "b"}
Texts == UNION {[1..n -> Chars] : n \in 0..MaxTextLen}

Min(a, b) == IF a <= b THEN a ELSE b

\* text[i:j] for 0 <= i <= j: the characters at the 0-based positions
\* i .. j-1 that exist.
Slice(text, i, j) == SubSeq(text, i + 1, Min(j, Len(text)))

\* list(range(0, stop, step)) for step >= 1.
RangeFromZero(stop, step) ==
    [k \in 1..((stop + step - 1) \div step) |-> (k - 1) * step]

\* Mutant of chunk_text: the slices overlap by one character.
chunk_text_Overlapping(text, chunk_size) ==
    LET starts == RangeFromZero(Len(text), chunk_size) IN
    [k \in DOMAIN starts |-> Slice(text, starts[k], starts[k] + chunk_size + 1)]

chunk_text(text, chunk_size) ==
    LET starts == RangeFromZero(Len(text), chunk_size) IN
    [k \in DOMAIN starts |-> Slice(text, starts[k], starts[k] + chunk_size)]

\* The default suffix "...".
DefaultSuffix == <<".", ".", ".">>

\* Mutant of truncate_text: a text of exactly max_length characters is
\* shortened too.
truncate_text_StrictBound(text, max_length, suffix) ==
    IF text = None THEN None
    ELSE IF Len(text[1]) < max_length THEN text
    ELSE Some(Slice(text[1], 0, max_length) \o suffix)

truncate_text(text, max_length, suffix) ==
    IF text = None THEN None
    ELSE IF Len(text[1]) <= max_length THEN text
    ELSE Some(Slice(text[1], 0, max_length) \o suffix)

\* -------------------------------------------------------- content blocks
\* The bytes of a payload: "A", and the two bytes of the UTF-8 encoding of
\* e-acute, which are invalid UTF-8 alone or in the wrong order.
Bytes == {65, 195, 169}
Payloads == UNION {[1..n -> Bytes] : n \in 0..MaxPayloadLen}

\* base64.b64encode(data).decode("utf-8"): the characters of the encoding
\* by their index in the base64 alphabet, 64 for the padding "=".
RECURSIVE b64encode(_)
b64encode(data) ==
    IF data = <<>> THEN <<>>
    ELSE IF Len(data) = 1
    THEN <<data[1] \div 4, (data[1] % 4) * 16, 64, 64>>
    ELSE IF Len(data) = 2
    THEN <<data[1] \div 4, (data[1] % 4) * 16 + data[2] \div 16,
           (data[2] % 16) * 4, 64>>
    ELSE <<data[1] \div 4, (data[1] % 4) * 16 + data[2] \div 16,
           (data[2] % 16) * 4 + data[3] \div 64, data[3] % 64>>
         \o b64encode(SubSeq(data, 4, Len(data)))

\* data.decode("utf-8") for bytes below 224, as the list of code points:
\* a byte below 128 is one character, a byte 194..223 followed by a byte
\* 128..191 is one character, anything else raises UnicodeDecodeError
\* (None).
RECURSIVE decode_utf8(_)
decode_utf8(data) ==
    IF data = <<>> THEN Some(<<>>)
    ELSE IF data[1] < 128
    THEN LET rest == decode_utf8(Tail(data)) IN
         IF rest = None THEN None ELSE Some(<<data[1]>> \o rest[1])
    ELSE IF /\ data[1] >= 194 /\ data[1] <= 223 /\ Len(data) >= 2
            /\ data[2] >= 128 /\ data[2] <= 191
    THEN LET rest == decode_utf8(SubSeq(data, 3, Len(data))) IN
         IF rest = None THEN None
         ELSE Some(<<(data[1] - 192) * 64 + (data[2] - 128)>> \o rest[1])
    ELSE None

\* data.decode("latin-1"): every byte is the character of its value.
decode_latin1(data) == data

\* The text of a text block: data decoded as UTF-8, or as Latin-1 when that
\* raises.
text_content(data) ==
    IF decode_utf8(data) # None THEN decode_utf8(data)[1] ELSE decode_latin1(data)

\* The block build_attachment_content_block returns, or None.  The text of
\* a text block is kept as the filename of its "[File: ...]" prefix (None:
\* no prefix) and the decoded text.
ContentBlock(content_type, data, filename) ==
    LET type == build_attachment_content_block(content_type) IN
    IF type = "image"
    THEN Some([type |-> "image",
               source |-> [type |-> "base64", media_type |-> content_type,
                           data |-> b64encode(data)]])
    ELSE IF type = "document"
    THEN Some([type |-> "document",
               source |-> [type |-> "base64",
                           media_type |-> <<"application", "pdf">>,
                           data |-> b64encode(data)]])
    ELSE IF type = "text"
    THEN Some([type |-> "text", prefix |-> filename,
               text |-> text_content(data)])
    ELSE None

\* ------------------------------------------------------------ error text
\* A string whose characters do not matter is known by its name, its length
\* and the number of whitespace characters it starts and ends with (a blank
\* string has lead = len).  A text built from such strings is a list of
\* pieces, each the characters from..to of a named string; the characters
\* of differently named strings are taken to differ.
Str(name, len, lead, trail) ==
    [name |-> name, len |-> len, lead |-> lead, trail |-> trail]

Piece(of, from, to) == [of |-> of, from |-> from, to |-> to]

\* A literal or formatted string of the given length, whole.
Literal(name, len) == <<Piece(name, 1, len)>>

\* not s.strip()
IsBlank(s) == s.lead = s.len

\* The string itself, and s.strip().
Whole(s) == IF s.len = 0 THEN <<>> ELSE Literal(s.name, s.len)
Strip(s) ==
    IF IsBlank(s) THEN <<>> ELSE <<Piece(s.name, s.lead + 1, s.len - s.trail)>>

\* len(text)
RECURSIVE TextLen(_)
TextLen(text) ==
    IF text = <<>> THEN 0
    ELSE (Head(text).to - Head(text).from + 1) + TextLen(Tail(text))

\* text[:n]
RECURSIVE Take(_, _)
Take(text, n) ==
    IF text = <<>> \/ n <= 0 THEN <<>>
    ELSE LET p == Head(text)
             l == p.to - p.from + 1
         IN IF l <= n THEN <<p>> \o Take(Tail(text), n - l)
            ELSE <<Piece(p.of, p.from, p.from + n - 1)>>

\* The number of characters of str(n), n a natural number.
RECURSIVE Digits(_)
Digits(n) == IF n < 10 THEN 1 ELSE 1 + Digits(n \div 10)

\* "\n".join(details)
RECURSIVE Join(_)
Join(details) ==
    IF details = <<>> THEN <<>>
    ELSE IF Len(details) = 1 THEN details[1]
    ELSE details[1] \o Literal("\\n", 1) \o Join(Tail(details))

\* An exception: message is the list of its message attribute when that is a
\* string (empty otherwise), str the string str(error), status the list of
\* its status_code when it has one, type its class name and the length of
\* that name.
Error(message, str, status, type) ==
    [message |-> message, str |-> str, status |-> status, type |-> type]

ExceptionType == [name |-> "Exception", len |-> 9]
RateLimitErrorType == [name |-> "RateLimitError", len |-> 14]

\* The error of a rate-limited call: status 429, message "rate limited".
RateLimited ==
    Error(<<Str("message", 12, 0, 0)>>, Str("message", 12, 0, 0), <<429>>,
          RateLimitErrorType)

\* f"Status: {status}" and f"Error: {error_type}"
StatusLine(status) == Literal("Status: {status}", 8 + Digits(status))
TypeLine(type) == Literal("Error: {error_type}", 7 + type.len)

\* Mutant of format_anthropic_error: the status line is left out.
format_anthropic_error_NoStatus(error) ==
    LET message ==
            IF error.message # <<>> /\ ~IsBlank(error.message[1])
            THEN Whole(error.message[1]) ELSE Strip(error.str)
        details ==
            IF error.type.name # "Exception" THEN <<TypeLine(error.type)>> ELSE <<>>
    IN IF details # <<>>
       THEN message \o Literal("\\n\\n", 2) \o Join(details)
       ELSE message

format_anthropic_error(error) ==
    LET message ==
            IF error.message # <<>> /\ ~IsBlank(error.message[1])
            THEN Whole(error.message[1]) ELSE Strip(error.str)
        details ==
            (IF error.status # <<>> THEN <<StatusLine(error.status[1])>> ELSE <<>>)
            \o (IF error.type.name # "Exception"
                THEN <<TypeLine(error.type)>> ELSE <<>>)
    IN IF details # <<>>
       THEN message \o Literal("\\n\\n", 2) \o Join(details)
       ELSE message

\* The description of the error report of converse: the formatted error.
ConverseErrorDescription(error) == format_anthropic_error(error)

\* The description of the error report of on_message: the formatted error,
\* cut to MaxErrorDescription characters plus a marker when it is longer.
MessageErrorDescription(error) ==
    LET description == format_anthropic_error(error) IN
    IF TextLen(description) > MaxErrorDescription
    THEN Take(description, MaxErrorDescription)
             \o Literal("\\n\\n... (error message truncated)", 31)
    ELSE description

\* ------------------------------------------------------------------ state
VARIABLES
    conversations,  \* self.conversations: its keys (conversation ids), in insertion order
    heap,           \* the Conversation object created under each conversation id
    message_to_conversation_id,  \* self.message_to_conversation_id, as a set of entries
    views,          \* self.views: author -> conversation id of the ButtonView (0: no entry)
    cv,             \* the converse invocations, by interaction id
    mh,             \* the on_message invocations, by arrival order
    kt,             \* the keep_typing coroutines, by the handler that created the task
    http,           \* self._http_session and the aiohttp.ClientSession objects created
    report,         \* the error raised to each handler and the description of the report it built
    call            \* an application of a function of util.py or of the classifier: arguments and result

vars ==
    <<conversations, heap, message_to_conversation_id, views, cv, mh, kt, http,
      report, call>>

\* A turn of a history.  "by" names the invocation whose prompt or message
\* text the turn carries (a user turn) or whose completion call it answers
\* (an assistant turn); content is the list of content-block types of a user
\* turn and the response text of an assistant turn.
\* Mutant of the user turn: it is stored under the assistant role.
UserTurn_AssistantRole(by, content) ==
    [role |-> "assistant", by |-> by, content |-> content]

UserTurn(by, content) ==
    [role |-> "user", by |-> by, content |-> content]
AssistantTurn(by, text) == [role |-> "assistant", by |-> by, content |-> <<text>>]

\* A messages.create request: the parameter set (named by the converse
\* invocation that supplied model, system, max_tokens and the sampling
\* options; 0: none) and the turn list.
NoRequest == [params |-> 0, messages |-> <<>>]
NoConversation ==
    [starter |-> "", channel |-> "", params |-> 0, paused |-> FALSE,
     messages |-> <<>>]

IdleConverse ==
    [pc |-> "idle", author |-> "", channel |-> "", attachment |-> FALSE,
     content |-> <<>>, typing |-> "none", request |-> NoRequest,
     response |-> "", outcome |-> ""]

IdleMessage ==
    [pc |-> "idle", author |-> "", channel |-> "", attachments |-> 0,
     fetched |-> 0, atts |-> <<>>, conv |-> 0, content |-> <<>>,
     typing |-> "none",
     request |-> NoRequest, api |-> "", embeds |-> 0, view |-> 0, part |-> 0,
     outcome |-> ""]

\* The keep_typing tasks: a handler creates at most one, named after it.
Tasks == ({"c"} \X ConverseIds) \cup ({"m"} \X MessageIds)

\* A keep_typing coroutine that has not run yet: pos is the await it is
\* suspended at, signals the typing signals it has emitted, slept whether a
\* sleep interval has elapsed.
NewTask == [pos |-> "created", signals |-> 0, slept |-> FALSE]

\* The ClientSession objects, in order of creation: every fetch of an
\* attachment calls _get_http_session once.
SessionIds == 1..((MaxInvocations + MaxRaceInvocations) * MaxAttachments)

\* The state after __init__: _http_session is None (current = 0) and no
\* ClientSession exists.  state is "absent", "open", "closing" (close() is
\* scheduled as a task and has not run) or "closed"; closes counts the
\* close() calls; given is the set of sessions _get_http_session returned;
\* unloaded tells that cog_unload has run.
NoHttp ==
    [current |-> 0, state |-> [s \in SessionIds |-> "absent"],
     closes |-> [s \in SessionIds |-> 0], given |-> {}, unloaded |-> FALSE]

\* No error was raised to a handler (error is the empty list, or the list
\* of the one error raised), and no function is being applied.
NoReport == [error |-> <<>>, description |-> <<>>]
NoCall == [fn |-> "none"]

\* The cog after __init__.
Constructed ==
    /\ conversations = <<>>
    /\ heap = [id \in ConverseIds |-> NoConversation]
    /\ message_to_conversation_id = {}
    /\ views = [u \in Users |-> 0]
    /\ cv = [k \in ConverseIds |-> IdleConverse]
    /\ mh = [k \in MessageIds |-> IdleMessage]
    /\ kt = [t \in Tasks |-> NewTask]
    /\ http = NoHttp
    /\ report = [t \in Tasks |-> NoReport]

Init == Constructed /\ call = NoCall

\* ---------------------------------------------------------------- helpers
Range(seq) == {seq[i] : i \in DOMAIN seq}

Remove(seq, x) == SelectSeq(seq, LAMBDA y : y # x)

\* The handler invocations that are suspended at an await.
InFlight ==
    Cardinality({k \in ConverseIds : cv[k].pc \notin {"idle", "done"}})
        + Cardinality({k \in MessageIds : mh[k].pc \notin {"idle", "done"}})

\* The handler invocations the platform has dispatched so far.
Invoked ==
    Cardinality({k \in ConverseIds : cv[k].pc # "idle"})
        + Cardinality({k \in MessageIds : mh[k].pc # "idle"})

\* The platform may dispatch one more handler; once the cog is unloaded its
\* listener and its commands are removed.
MayDispatch(limit) ==
    InFlight < MaxInFlight /\ Invoked < limit /\ ~http.unloaded

\* An entry of message_to_conversation_id.  The platform message is named
\* by the invocation that sent it and the part of the response it carries.
Entry(by, part, id) == [msg |-> <<by[1], by[2], part>>, conv |-> id]

\* Mutant of the cancellation: cancel() is never called.
Cancel_Never(typing) == typing

\* cancel() on the keep_typing task of a handler, when it holds one.
Cancel(typing) == IF typing = "running" THEN "cancelled" ELSE typing

\* An attachment whose fetch has resolved: its content type and whether
\* _fetch_attachment_bytes returned bytes.
Fetched(content_type, fetch_ok) == [content_type |-> content_type, ok |-> fetch_ok]

\* Mutant of the loop body: the block is built also when the fetch failed.
AttachmentBlocks_IgnoreFetchFailure(content_type, fetch_ok) ==
    IF build_attachment_content_block(content_type) # NoBlock
    THEN <<build_attachment_content_block(content_type)>>
    ELSE <<>>

\* The blocks one attachment adds to user_content: none when the fetch
\* failed (attachment_data is None) or the type is unsupported.
AttachmentBlocks(content_type, fetch_ok) ==
    IF fetch_ok /\ build_attachment_content_block(content_type) # NoBlock
    THEN <<build_attachment_content_block(content_type)>>
    ELSE <<>>

\* ---------------------------------------------------------- HTTP session
\* The sessions created so far.
Created(h) == {s \in SessionIds : h.state[s] # "absent"}

\* _http_session is set and not closed (a session whose close() is only
\* scheduled is not closed yet).
HasOpenSession(h) == h.current # 0 /\ h.state[h.current] # "closed"

\* Mutant of _get_http_session: a ClientSession is created on every call.
GetHttpSession_AlwaysNew(h) ==
    LET s == Cardinality(Created(h)) + 1
    IN [h EXCEPT !.current = s, !.state[s] = "open", !.given = @ \cup {s}]

\* _get_http_session: no await of it suspends (the lock is never held
\* across a suspension, so acquiring it returns at once), and the call is
\* one step: the session in place is returned, or one is created under the
\* lock, stored and returned.
GetHttpSession(h) ==
    IF HasOpenSession(h)
    THEN [h EXCEPT !.given = @ \cup {h.current}]
    ELSE LET s == Cardinality(Created(h)) + 1
         IN [h EXCEPT !.current = s, !.state[s] = "open", !.given = @ \cup {s}]

\* cog_unload: the session in place, when not closed, is closed (by a task
\* on the bot's loop when it is running, else at once on a new loop), and
\* _http_session is set to None.
CogUnload(loop_running) ==
    /\ http' =
          IF HasOpenSession(http)
          THEN [http EXCEPT !.current = 0,
                            !.state[http.current] =
                                IF loop_running THEN "closing" ELSE "closed",
                            !.closes[http.current] = @ + 1,
                            !.unloaded = TRUE]
          ELSE [http EXCEPT !.current = 0, !.unloaded = TRUE]
    /\ UNCHANGED <<conversations, heap, message_to_conversation_id, views,
                   cv, mh, kt, report, call>>

\* The task created for session.close() has run.
SessionClosed(s) ==
    /\ http.state[s] = "closing"
    /\ http' = [http EXCEPT !.state[s] = "closed"]
    /\ UNCHANGED <<conversations, heap, message_to_conversation_id, views,
                   cv, mh, kt, report, call>>

\* ------------------------------------------------------------- converse
\* Mutant of the duplicate check: a paused conversation does not count.
HasActiveConversation_Unpaused(author, channel) ==
    \E i \in DOMAIN conversations :
        /\ heap[conversations[i]].starter = author
        /\ heap[conversations[i]].channel = channel
        /\ ~heap[conversations[i]].paused

\* The duplicate check of converse: some stored conversation has this
\* starter and this channel.
HasActiveConversation(author, channel) ==
    \E i \in DOMAIN conversations :
        /\ heap[conversations[i]].starter = author
        /\ heap[conversations[i]].channel = channel

\* The platform dispatches /anthropic converse: the handler runs up to its
\* first await, ctx.defer().  Interaction ids are assigned in arrival order;
\* prompt, model and the other options are the parameter set of invocation k.
ConverseInvoke(k, author, channel, attachment) ==
    /\ cv[k].pc = "idle"
    /\ \A j \in ConverseIds : j < k => cv[j].pc # "idle"
    /\ cv' = [cv EXCEPT ![k] = [IdleConverse EXCEPT
                  !.pc = "defer", !.author = author, !.channel = channel,
                  !.attachment = attachment]]
    /\ UNCHANGED <<conversations, heap, message_to_conversation_id, views, mh, kt, http, report, call>>

\* The messages.create call of converse: a one-turn history.
ConverseRequest(k, content) ==
    [params |-> k, messages |-> <<UserTurn(<<"c", k>>, content)>>]

\* Mutant of the return: the finally block is missing.
ConverseDone_NoFinally(k, outcome) ==
    [IdleConverse EXCEPT !.pc = "done", !.typing = cv[k].typing,
                         !.outcome = outcome]

\* The handler returns: the finally block cancels the typing task.
ConverseDone(k, outcome) ==
    [IdleConverse EXCEPT !.pc = "done", !.typing = Cancel(cv[k].typing),
                         !.outcome = outcome]

\* Mutant of converse: the typing task is created before the duplicate
\* check.
ConverseStart_TypingFirst(k) ==
    /\ cv[k].pc = "defer"
    /\ cv' = [cv EXCEPT ![k] =
            IF cv[k].channel = NoChannel
            THEN [@ EXCEPT !.pc = "send_nochannel"]
            ELSE IF HasActiveConversation(cv[k].author, cv[k].channel)
            THEN [@ EXCEPT !.pc = "send_duplicate", !.typing = "running"]
            ELSE IF cv[k].attachment
            THEN [@ EXCEPT !.pc = "fetch", !.typing = "running",
                           !.content = <<"text">>]
            ELSE [@ EXCEPT !.pc = "call", !.typing = "running",
                           !.content = <<"text">>,
                           !.request = ConverseRequest(k, <<"text">>)]]
    /\ http' = IF /\ cv[k].channel # NoChannel
                  /\ ~HasActiveConversation(cv[k].author, cv[k].channel)
                  /\ cv[k].attachment
               THEN GetHttpSession(http) ELSE http
    /\ UNCHANGED <<conversations, heap, message_to_conversation_id, views, mh, kt, report, call>>

\* ctx.defer() has resolved: the channel check, the duplicate check, and the
\* start of the try block up to its first await.
ConverseStart(k) ==
    /\ cv[k].pc = "defer"
    /\ cv' = [cv EXCEPT ![k] =
            IF cv[k].channel = NoChannel
            THEN [@ EXCEPT !.pc = "send_nochannel"]
            ELSE IF HasActiveConversation(cv[k].author, cv[k].channel)
            THEN [@ EXCEPT !.pc = "send_duplicate"]
            ELSE IF cv[k].attachment
            THEN [@ EXCEPT !.pc = "fetch", !.typing = "running",
                           !.content = <<"text">>]
            ELSE [@ EXCEPT !.pc = "call", !.typing = "running",
                           !.content = <<"text">>,
                           !.request = ConverseRequest(k, <<"text">>)]]
    /\ http' = IF /\ cv[k].channel # NoChannel
                  /\ ~HasActiveConversation(cv[k].author, cv[k].channel)
                  /\ cv[k].attachment
               THEN GetHttpSession(http) ELSE http
    /\ UNCHANGED <<conversations, heap, message_to_conversation_id, views, mh, kt, report, call>>

\* _fetch_attachment_bytes has resolved (bytes, or None on a failure) for an
\* attachment of the given content type.
ConverseFetched(k, content_type, fetch_ok) ==
    /\ cv[k].pc = "fetch"
    /\ LET content == cv[k].content \o AttachmentBlocks(content_type, fetch_ok)
       IN cv' = [cv EXCEPT ![k] = [@ EXCEPT !.pc = "call", !.content = content,
                                      !.request = ConverseRequest(k, content)]]
    /\ UNCHANGED <<conversations, heap, message_to_conversation_id, views, mh, kt, http, report, call>>

\* client.messages.create has resolved.  On an error the except block awaits
\* the error report; on a response with no embed the "No response generated."
\* notice; otherwise the view is stored and the embeds are sent.
ConverseApiReturn(k, r, error) ==
    /\ cv[k].pc = "call"
    /\ report' = IF r = "error"
                 THEN [report EXCEPT ![<<"c", k>>] =
                          [error |-> <<error>>,
                           description |-> ConverseErrorDescription(error)]]
                 ELSE report
    /\ IF r = "error"
       THEN /\ cv' = [cv EXCEPT ![k] = [@ EXCEPT !.pc = "send_error",
                                           !.request = NoRequest,
                                           !.response = "error"]]
            /\ UNCHANGED views
       ELSE IF NumEmbeds(response_text(r)) = 0
       THEN /\ cv' = [cv EXCEPT ![k] = [@ EXCEPT !.pc = "send_noresponse",
                                           !.request = NoRequest,
                                           !.response = response_text(r)]]
            /\ UNCHANGED views
       ELSE /\ cv' = [cv EXCEPT ![k] = [@ EXCEPT !.pc = "send_started",
                                           !.request = NoRequest,
                                           !.response = response_text(r)]]
            /\ views' = [views EXCEPT ![cv[k].author] = k]
    /\ UNCHANGED <<conversations, heap, message_to_conversation_id, mh, kt, http, call>>

\* Mutant of the stored conversation: the history lacks the assistant turn.
NewConversation_UserTurnOnly(k) ==
    [starter |-> cv[k].author, channel |-> cv[k].channel, params |-> k,
     paused |-> FALSE,
     messages |-> <<UserTurn(<<"c", k>>, cv[k].content)>>]

\* The Conversation object converse stores.
NewConversation(k) ==
    [starter |-> cv[k].author, channel |-> cv[k].channel, params |-> k,
     paused |-> FALSE,
     messages |-> <<UserTurn(<<"c", k>>, cv[k].content),
                    AssistantTurn(<<"c", k>>, cv[k].response)>>]

\* An awaited ctx.send_followup has resolved: delivered, or raised.
ConverseSendResolved(k, ok) ==
    /\ cv[k].pc \in {"send_nochannel", "send_duplicate", "send_noresponse",
                     "send_started", "send_error"}
    /\ LET pc == cv[k].pc IN
       /\ IF pc = "send_started" /\ ok
          THEN /\ message_to_conversation_id' =
                      message_to_conversation_id \cup {Entry(<<"c", k>>, 1, k)}
               /\ heap' = [heap EXCEPT ![k] = NewConversation(k)]
               /\ conversations' = Append(conversations, k)
          ELSE UNCHANGED <<message_to_conversation_id, heap, conversations>>
       /\ cv' = [cv EXCEPT ![k] =
              CASE pc = "send_nochannel" ->
                       ConverseDone(k, IF ok THEN "no_channel" ELSE "raised")
                [] pc = "send_duplicate" ->
                       ConverseDone(k, IF ok THEN "duplicate" ELSE "raised")
                [] pc = "send_noresponse" ->
                       IF ok THEN ConverseDone(k, "no_response")
                       ELSE [@ EXCEPT !.pc = "send_error"]
                [] pc = "send_started" ->
                       IF ok THEN ConverseDone(k, "started")
                       ELSE [@ EXCEPT !.pc = "send_error"]
                [] pc = "send_error" ->
                       ConverseDone(k, IF ok THEN "error_reported" ELSE "raised")]
    /\ UNCHANGED <<views, mh, kt, http, report, call>>

\* ----------------------------------------------------------- on_message
\* Mutant of the own-message check: the early return is missing.
IsOwnMessage_Never(author) == FALSE

\* "Ignore messages from the bot itself".
IsOwnMessage(author) == author = BotUser

\* Mutant of the filter: the channel comparison is missing.
RouteMatches_AnyChannel(id, author, channel) == author = heap[id].starter

\* The filter of the on_message loop: neither continue is taken.
RouteMatches(id, author, channel) ==
    /\ channel = heap[id].channel
    /\ author = heap[id].starter

\* The conversation the loop of on_message hands the message to: the first
\* one, in table order, that passes the filter (0: none).
RoutedConversation(author, channel) ==
    IF \E i \in DOMAIN conversations : RouteMatches(conversations[i], author, channel)
    THEN LET i == CHOOSE i \in DOMAIN conversations :
                    /\ RouteMatches(conversations[i], author, channel)
                    /\ \A j \in 1..(i - 1) :
                          ~RouteMatches(conversations[j], author, channel)
         IN conversations[i]
    ELSE 0

\* Mutant of the first check: the paused flag is not consulted.
MayRespond_IgnorePause(id, author) == author = heap[id].starter

\* The first check of handle_new_message_in_conversation: "Only respond to
\* the user who started the conversation and if not paused".
MayRespond(id, author) ==
    ~(author # heap[id].starter \/ heap[id].paused)

\* Mutant of the append: the turn goes to every stored conversation.
AppendUserTurn_EveryConversation(k, id, content) ==
    [b \in ConverseIds |->
        IF heap[b] # NoConversation
        THEN [heap[b] EXCEPT !.messages = Append(@, UserTurn(<<"m", k>>, content))]
        ELSE heap[b]]

\* messages.append of the user turn.
AppendUserTurn(k, id, content) ==
    [heap EXCEPT ![id].messages = Append(@, UserTurn(<<"m", k>>, content))]

\* Mutant of the request: only the new user turn is sent.
MessageRequest_NewTurnOnly(k, id, content) ==
    [params |-> heap[id].params, messages |-> <<UserTurn(<<"m", k>>, content)>>]

\* The messages.create call that follows the append: the parameters of the
\* conversation and its messages list.
MessageRequest(k, id, content) ==
    [params |-> heap[id].params,
     messages |-> AppendUserTurn(k, id, content)[id].messages]

\* Mutant of the return: the loop of on_message has no break, and the next
\* conversation of the table that passes the filter is called with the
\* message as well.
MessageDone_NoBreak(k, outcome) ==
    LET later == {i \in DOMAIN conversations :
                     /\ conversations[i] # mh[k].conv
                     /\ RouteMatches(conversations[i], mh[k].author, mh[k].channel)}
    IN IF later # {}
       THEN LET id == conversations[CHOOSE i \in later : TRUE] IN
            [mh[k] EXCEPT !.pc = "call", !.conv = id,
                          !.request = MessageRequest(k, id, <<"text">>)]
       ELSE [IdleMessage EXCEPT !.pc = "done", !.author = mh[k].author,
                                !.channel = mh[k].channel,
                                !.typing = Cancel(mh[k].typing),
                                !.conv = mh[k].conv, !.api = mh[k].api,
                                !.outcome = outcome]

\* The handler returns: the finally block cancels the typing task it holds,
\* and on_message breaks out of its loop.
MessageDone(k, outcome) ==
    [IdleMessage EXCEPT !.pc = "done", !.author = mh[k].author,
                        !.channel = mh[k].channel,
                        !.typing = Cancel(mh[k].typing),
                        !.conv = mh[k].conv, !.api = mh[k].api,
                        !.outcome = outcome]

\* The platform dispatches on_message for a new message: the handler runs
\* up to its first await (an attachment fetch, or messages.create) or
\* returns.
OnMessage(k, author, channel, attachments) ==
    /\ mh[k].pc = "idle"
    /\ \A j \in MessageIds : j < k => mh[j].pc # "idle"
    /\ LET id == RoutedConversation(author, channel)
           m == [IdleMessage EXCEPT !.author = author, !.channel = channel,
                                    !.attachments = attachments]
           returned == [IdleMessage EXCEPT !.pc = "done", !.author = author,
                                           !.channel = channel]
       IN
       IF IsOwnMessage(author)
       THEN /\ mh' = [mh EXCEPT ![k] = [returned EXCEPT !.outcome = "own_message"]]
            /\ UNCHANGED heap
       ELSE IF id = 0
       THEN /\ mh' = [mh EXCEPT ![k] = [returned EXCEPT !.outcome = "no_conversation"]]
            /\ UNCHANGED heap
       ELSE IF ~MayRespond(id, author)
       THEN /\ mh' = [mh EXCEPT ![k] = [returned EXCEPT !.conv = id,
                                                        !.outcome = "not_answered"]]
            /\ UNCHANGED heap
       ELSE IF attachments > 0
       THEN /\ mh' = [mh EXCEPT ![k] = [m EXCEPT !.pc = "fetch", !.conv = id,
                                               !.typing = "running",
                                               !.content = <<"text">>]]
            /\ UNCHANGED heap
       ELSE /\ mh' = [mh EXCEPT ![k] = [m EXCEPT !.pc = "call", !.conv = id,
                                               !.typing = "running",
                                               !.content = <<"text">>,
                                               !.request =
                                                   MessageRequest(k, id, <<"text">>)]]
            /\ heap' = AppendUserTurn(k, id, <<"text">>)
    /\ http' = IF /\ ~IsOwnMessage(author)
                  /\ RoutedConversation(author, channel) # 0
                  /\ MayRespond(RoutedConversation(author, channel), author)
                  /\ attachments > 0
               THEN GetHttpSession(http) ELSE http
    /\ UNCHANGED <<conversations, message_to_conversation_id, views, cv, kt, report, call>>

\* _fetch_attachment_bytes has resolved for the next attachment of the
\* message; after the last one the user turn is appended and messages.create
\* is called.
MessageFetched(k, content_type, fetch_ok) ==
    /\ mh[k].pc = "fetch"
    /\ LET n == mh[k].fetched + 1
           content == mh[k].content \o AttachmentBlocks(content_type, fetch_ok)
       IN
       IF n < mh[k].attachments
       THEN /\ mh' = [mh EXCEPT ![k] = [@ EXCEPT !.fetched = n,
                                                !.atts = Append(@, Fetched(content_type, fetch_ok)),
                                                !.content = content]]
            /\ UNCHANGED heap
       ELSE /\ mh' = [mh EXCEPT ![k] = [@ EXCEPT !.pc = "call", !.fetched = n,
                                                !.atts = Append(@, Fetched(content_type, fetch_ok)),
                                                !.content = content,
                                                !.request =
                                                    MessageRequest(k, mh[k].conv, content)]]
            /\ heap' = AppendUserTurn(k, mh[k].conv, content)
    /\ http' = IF mh[k].fetched + 1 < mh[k].attachments
               THEN GetHttpSession(http) ELSE http
    /\ UNCHANGED <<conversations, message_to_conversation_id, views, cv, kt, report, call>>

\* Mutant of the assistant append: the turn overwrites the last one.
AppendAssistantTurn_ReplaceLast(k, id, text) ==
    [heap EXCEPT ![id].messages =
        [@ EXCEPT ![Len(@)] = AssistantTurn(<<"m", k>>, text)]]

\* What the handler does with the history once messages.create has returned
\* a response: the assistant turn is appended.
AppendAssistantTurn(k, id, text) ==
    [heap EXCEPT ![id].messages = Append(@, AssistantTurn(<<"m", k>>, text))]

\* Mutant of the failure path: the user turn of the message is rolled back.
HistoryAfterFailure_Rollback(k, id) ==
    [heap EXCEPT ![id].messages =
        SelectSeq(@, LAMBDA t : t # UserTurn(<<"m", k>>, mh[k].content))]

\* What the handler does with the history when messages.create raised:
\* nothing.
HistoryAfterFailure(k, id) == heap

\* client.messages.create has resolved.  On an error the except block awaits
\* the error report, the typing task still running.  On a response the
\* typing task is cancelled, the assistant turn appended, the view looked up
\* and the first reply awaited.
MessageApiReturn(k, r, error) ==
    /\ mh[k].pc = "call"
    /\ report' = IF r = "error"
                 THEN [report EXCEPT ![<<"m", k>>] =
                          [error |-> <<error>>,
                           description |-> MessageErrorDescription(error)]]
                 ELSE report
    /\ IF r = "error"
       THEN /\ mh' = [mh EXCEPT ![k] = [@ EXCEPT !.pc = "send_error",
                                                !.api = "error",
                                                !.request = NoRequest]]
            /\ heap' = HistoryAfterFailure(k, mh[k].conv)
       ELSE /\ mh' = [mh EXCEPT ![k] = [@ EXCEPT
                        !.pc = IF NumEmbeds(response_text(r)) = 0
                               THEN "send_nocontent" ELSE "reply",
                        !.part = IF NumEmbeds(response_text(r)) = 0 THEN 0 ELSE 1,
                        !.embeds = NumEmbeds(response_text(r)),
                        !.api = "ok",
                        !.request = NoRequest,
                        !.typing = Cancel(mh[k].typing),
                        !.view = views[mh[k].author]]]
            /\ heap' = AppendAssistantTurn(k, mh[k].conv, response_text(r))
    /\ UNCHANGED <<conversations, message_to_conversation_id, views, cv, kt, http, call>>

\* After a response message went out: the next embed, or the end.
MessageNext(k) ==
    IF mh[k].part < mh[k].embeds
    THEN [mh[k] EXCEPT !.pc = "send_embed", !.part = mh[k].part + 1]
    ELSE MessageDone(k, "replied")

\* An awaited message.reply or channel.send has resolved: delivered, or
\* raised.  reply and send_embed carry an embed; reply_text and send_text are
\* their plain-text fallbacks.
MessageSendResolved(k, ok) ==
    /\ mh[k].pc \in {"reply", "reply_text", "send_embed", "send_text",
                     "send_nocontent", "send_error"}
    /\ LET pc == mh[k].pc
           tracked == pc \in {"reply", "reply_text", "send_embed", "send_text"}
       IN
       /\ message_to_conversation_id' =
              IF ok /\ tracked
              THEN message_to_conversation_id
                       \cup {Entry(<<"m", k>>, mh[k].part, mh[k].conv)}
              ELSE message_to_conversation_id
       /\ mh' = [mh EXCEPT ![k] =
              CASE pc = "reply" ->
                       IF ok THEN MessageNext(k) ELSE [@ EXCEPT !.pc = "reply_text"]
                [] pc = "reply_text" ->
                       IF ok THEN MessageNext(k) ELSE [@ EXCEPT !.pc = "send_error"]
                [] pc = "send_embed" ->
                       IF ok THEN MessageNext(k) ELSE [@ EXCEPT !.pc = "send_text"]
                [] pc = "send_text" ->
                       IF ok THEN MessageNext(k) ELSE [@ EXCEPT !.pc = "send_error"]
                [] pc = "send_nocontent" ->
                       IF ok THEN MessageDone(k, "no_content")
                       ELSE [@ EXCEPT !.pc = "send_error"]
                [] pc = "send_error" ->
                       MessageDone(k, IF ok THEN "error_reported" ELSE "raised")]
    /\ UNCHANGED <<conversations, heap, views, cv, kt, http, report, call>>

\* ----------------------------------------------------------- keep_typing
\* The task object of a handler: "none" before create_task, "running" until
\* the handler calls cancel(), "cancelled" from then on.
TypingOf(t) == IF t[1] = "c" THEN cv[t[2]].typing ELSE mh[t[2]].typing

\* Mutant of the except block: the CancelledError is swallowed and the
\* coroutine returns.
OnCancelledError_Swallowed == "finished"

\* The except block of keep_typing logs and re-raises: the task ends
\* cancelled.
OnCancelledError == "cancelled"

\* The event loop runs the task for the first time: the coroutine runs to
\* its first await, entering channel.typing().  A task cancelled before it
\* ever ran ends cancelled without running.
KeepTypingStart(t) ==
    /\ TypingOf(t) # "none"
    /\ kt[t].pos = "created"
    /\ kt' = [kt EXCEPT ![t].pos =
                 IF TypingOf(t) = "cancelled" THEN "cancelled" ELSE "entering"]
    /\ UNCHANGED <<conversations, heap, message_to_conversation_id, views, cv, mh, http, report, call>>

\* Mutant of the loop body: the sleep is missing, the loop signals again at
\* once.
KeepTypingEntered_NoSleep(t, ok) ==
    /\ TypingOf(t) = "running"
    /\ kt[t].pos = "entering"
    /\ kt[t].signals < MaxSignals
    /\ kt' = [kt EXCEPT ![t] =
                 IF ok THEN [@ EXCEPT !.signals = @ + 1]
                 ELSE [@ EXCEPT !.pos = "failed"]]
    /\ UNCHANGED <<conversations, heap, message_to_conversation_id, views, cv, mh, http, report, call>>

\* channel.typing() has been entered, the typing signal sent, and the
\* coroutine sleeps; or entering raised, which keep_typing does not catch.
KeepTypingEntered(t, ok) ==
    /\ TypingOf(t) = "running"
    /\ kt[t].pos = "entering"
    /\ kt[t].signals < MaxSignals
    /\ kt' = [kt EXCEPT ![t] =
                 IF ok THEN [@ EXCEPT !.pos = "sleeping", !.signals = @ + 1]
                 ELSE [@ EXCEPT !.pos = "failed"]]
    /\ UNCHANGED <<conversations, heap, message_to_conversation_id, views, cv, mh, http, report, call>>

\* asyncio.sleep(5) has elapsed: the typing context is left and the loop
\* enters it again.
KeepTypingSlept(t) ==
    /\ TypingOf(t) = "running"
    /\ kt[t].pos = "sleeping"
    /\ kt' = [kt EXCEPT ![t] = [@ EXCEPT !.pos = "entering", !.slept = TRUE]]
    /\ UNCHANGED <<conversations, heap, message_to_conversation_id, views, cv, mh, http, report, call>>

\* cancel() was called on the task: CancelledError is thrown into the await
\* the coroutine is suspended at.  A cancellation that arrives while the
\* typing context is being entered may or may not find the signal sent.
KeepTypingCancelled(t, sent) ==
    /\ TypingOf(t) = "cancelled"
    /\ kt[t].pos \in {"entering", "sleeping"}
    /\ sent => kt[t].pos = "entering"
    /\ kt' = [kt EXCEPT ![t] =
                 [@ EXCEPT !.pos = OnCancelledError,
                           !.signals = IF sent THEN @ + 1 ELSE @]]
    /\ UNCHANGED <<conversations, heap, message_to_conversation_id, views, cv, mh, http, report, call>>

\* ------------------------------------------------------ the button view
\* The "end" control of a conversation removes it from the table; the index
\* entries and the view stay.
EndConversation(id) ==
    /\ id \in Range(conversations)
    /\ conversations' = Remove(conversations, id)
    /\ UNCHANGED <<heap, message_to_conversation_id, views, cv, mh, kt, http, report, call>>

\* The "pause/resume" control of a conversation flips params.paused.
TogglePause(id) ==
    /\ id \in Range(conversations)
    /\ heap' = [heap EXCEPT ![id].paused = ~@]
    /\ UNCHANGED <<conversations, message_to_conversation_id, views, cv, mh, kt, http, report, call>>

\* ---------------------------------------------------------- specification
\* An environment env names the users that act and the channels they act in,
\* the number of handlers the platform dispatches (limit), what
\* messages.create may resolve to (results) and whether a platform send may
\* raise (sends).
DispatchConverse(env) ==
    /\ MayDispatch(env.limit)
    /\ \E k \in ConverseIds, author \in env.users,
          channel \in env.channels \cup {NoChannel}, attachment \in BOOLEAN :
          ConverseInvoke(k, author, channel, attachment)

DispatchMessage(env) ==
    /\ MayDispatch(env.limit)
    /\ \E k \in MessageIds, author \in env.users, channel \in env.channels,
          attachments \in 0..env.attachments :
          OnMessage(k, author, channel, attachments)

\* The steps of the cog in an environment.
Step(env) ==
    \/ DispatchConverse(env)
    \/ \E k \in ConverseIds : ConverseStart(k)
    \/ \E k \in ConverseIds, content_type \in env.mimes, fetch_ok \in BOOLEAN :
          ConverseFetched(k, content_type, fetch_ok)
    \/ \E k \in ConverseIds, r \in env.results, error \in env.errors :
          ConverseApiReturn(k, r, error)
    \/ \E k \in ConverseIds, ok \in env.sends : ConverseSendResolved(k, ok)
    \/ DispatchMessage(env)
    \/ \E k \in MessageIds, content_type \in env.mimes, fetch_ok \in BOOLEAN :
          MessageFetched(k, content_type, fetch_ok)
    \/ \E k \in MessageIds, r \in env.results, error \in env.errors :
          MessageApiReturn(k, r, error)
    \/ \E k \in MessageIds, ok \in env.sends : MessageSendResolved(k, ok)
    \/ \E id \in ConverseIds : EndConversation(id)
    \/ \E id \in ConverseIds : TogglePause(id)

\* Any user in any channel, every outcome of every await.
Next ==
    Step([users |-> Users, channels |-> Channels, limit |-> MaxInvocations,
          results |-> ApiResults, sends |-> BOOLEAN,
          attachments |-> MaxAttachments, mimes |-> MimeTypes,
     errors |-> {RateLimited}])

Spec == Init /\ [][Next]_vars

\* One user in one channel with one more dispatch, the platform delivering
\* every send: the interleavings of the handlers of a single (user, channel)
\* pair.
NextRace ==
    Step([users |-> {"alice"}, channels |-> {"general"},
          limit |-> MaxRaceInvocations, results |-> {"error", "short"},
          sends |-> {TRUE},
          attachments |-> MaxAttachments, mimes |-> MimeTypes,
     errors |-> {RateLimited}])

SpecRace == Init /\ [][NextRace]_vars

\* The awaits of one handler resolve: the steps the event loop takes for a
\* suspended converse or on_message invocation.
ConverseResolve(env, k) ==
    \/ ConverseStart(k)
    \/ \E content_type \in env.mimes, fetch_ok \in BOOLEAN :
          ConverseFetched(k, content_type, fetch_ok)
    \/ \E r \in env.results, error \in env.errors : ConverseApiReturn(k, r, error)
    \/ \E ok \in env.sends : ConverseSendResolved(k, ok)

MessageResolve(env, k) ==
    \/ \E content_type \in env.mimes, fetch_ok \in BOOLEAN :
          MessageFetched(k, content_type, fetch_ok)
    \/ \E r \in env.results, error \in env.errors : MessageApiReturn(k, r, error)
    \/ \E ok \in env.sends : MessageSendResolved(k, ok)

\* One user in one channel, every outcome of every await, and every awaited
\* call of a suspended handler eventually resolving.
EnvLive ==
    [users |-> {"alice"}, channels |-> {"general"}, limit |-> MaxInvocations,
     results |-> ApiResults, sends |-> BOOLEAN,
     attachments |-> MaxAttachments, mimes |-> MimeTypes,
     errors |-> {RateLimited}]

NextLive == Step(EnvLive)

SpecLive ==
    /\ Init
    /\ [][NextLive]_vars
    /\ \A k \in ConverseIds : WF_vars(ConverseResolve(EnvLive, k))
    /\ \A k \in MessageIds : WF_vars(MessageResolve(EnvLive, k))

\* One user in one channel, the platform delivering every send, and the
\* keep_typing coroutines scheduled between the steps of the handlers.
EnvTyping ==
    [users |-> {"alice"}, channels |-> {"general"}, limit |-> MaxInvocations,
     results |-> {"error", "short"}, sends |-> {TRUE},
     attachments |-> MaxAttachments, mimes |-> MimeTypes,
     errors |-> {RateLimited}]

NextTyping ==
    \/ Step(EnvTyping)
    \/ \E t \in Tasks : KeepTypingStart(t)
    \/ \E t \in Tasks, ok \in BOOLEAN : KeepTypingEntered(t, ok)
    \/ \E t \in Tasks : KeepTypingSlept(t)
    \/ \E t \in Tasks, sent \in BOOLEAN : KeepTypingCancelled(t, sent)

SpecTyping == Init /\ [][NextTyping]_vars

\* One user in one channel, the platform delivering every send, and the cog
\* unloaded at any moment, while handlers are suspended or not.
EnvHttp ==
    [users |-> {"alice"}, channels |-> {"general"}, limit |-> MaxInvocations,
     results |-> {"error", "short"}, sends |-> {TRUE},
     attachments |-> MaxAttachments, mimes |-> MimeTypes,
     errors |-> {RateLimited}]

NextHttp ==
    \/ Step(EnvHttp)
    \/ \E loop_running \in BOOLEAN : CogUnload(loop_running)
    \/ \E s \in SessionIds : SessionClosed(s)

SpecHttp == Init /\ [][NextHttp]_vars

\* One user in two channels, every completion and every send succeeding:
\* the conversations one user holds side by side.
EnvViews ==
    [users |-> {"alice"}, channels |-> Channels, limit |-> MaxRaceInvocations,
     results |-> {"short"}, sends |-> {TRUE},
     attachments |-> MaxAttachments, mimes |-> MimeTypes,
     errors |-> {RateLimited}]

NextViews == Step(EnvViews)

SpecViews == Init /\ [][NextViews]_vars

\* Two users in two channels with one more dispatch, the platform
\* delivering every send: the sessions of different users and of different
\* channels side by side.
EnvSessions ==
    [users |-> {"alice", "bob"}, channels |-> Channels,
     limit |-> MaxRaceInvocations, results |-> {"error", "short"},
     sends |-> {TRUE},
     attachments |-> MaxAttachments, mimes |-> {<<"image", "png">>},
     errors |-> {RateLimited}]

NextSessions == Step(EnvSessions)

SpecSessions == Init /\ [][NextSessions]_vars

\* The content types the content assembler is driven with: every kind of
\* block, an unsupported type and the empty type.
ContentMimeTypes ==
    {<<"image", "png">>, <<"application", "pdf">>, <<"text", "plain">>,
     <<"application", "zip">>, <<"", "">>}

\* One user in one channel sending messages with up to
\* MaxContentAttachments attachments of those types.
EnvContent ==
    [users |-> {"alice"}, channels |-> {"general"}, limit |-> MaxInvocations,
     results |-> {"short"}, sends |-> {TRUE},
     attachments |-> MaxContentAttachments, mimes |-> ContentMimeTypes,
     errors |-> {RateLimited}]

NextContent == Step(EnvContent)

SpecContent == Init /\ [][NextContent]_vars

\* ----------------------------------------------------------- error report
\* The errors messages.create raises: with a message attribute of several
\* lengths around the limit (str(error) is then the message), or with a
\* blank or missing one and a str(error) with surrounding whitespace; with
\* and without a status code; of class Exception or of a subclass.
MessageLengths == {12, 3966, 3990, 4000, 4001}
Errors ==
    {Error(<<Str("message", l, 0, 0)>>, Str("message", l, 0, 0), status, type) :
        l \in MessageLengths, status \in {<<>>, <<429>>},
        type \in {ExceptionType, RateLimitErrorType}}
    \cup {Error(message, Str("str", 14, 1, 1), status, RateLimitErrorType) :
             message \in {<<>>, <<Str("message", 3, 3, 0)>>},
             status \in {<<>>, <<429>>}}

\* One user in one channel, the completion call answering or raising one of
\* the errors, the platform delivering a send or not.
EnvError ==
    [users |-> {"alice"}, channels |-> {"general"}, limit |-> MaxInvocations,
     results |-> {"error", "short"}, sends |-> BOOLEAN,
     attachments |-> MaxAttachments, mimes |-> {<<"image", "png">>},
     errors |-> Errors]

NextError == Step(EnvError)

SpecError == Init /\ [][NextError]_vars

\* ------------------------------------------------- applying the functions
\* The applications of chunk_text and truncate_text, not yet evaluated.
ChunkTextCalls ==
    {[fn |-> "chunk_text", text |-> text, chunk_size |-> n,
      done |-> FALSE, result |-> <<>>] :
        text \in Texts, n \in 1..MaxChunkSize}

TruncateTextCalls ==
    {[fn |-> "truncate_text", text |-> text, max_length |-> n,
      suffix |-> suffix, done |-> FALSE, result |-> None] :
        text \in {None} \cup {Some(t) : t \in Texts}, n \in 0..MaxTextLen,
        suffix \in {DefaultSuffix, <<>>}}

\* The application returns.
ChunkText ==
    /\ call.fn = "chunk_text" /\ ~call.done
    /\ call' = [call EXCEPT !.done = TRUE,
                            !.result = chunk_text(call.text, call.chunk_size)]
    /\ UNCHANGED <<conversations, heap, message_to_conversation_id, views,
                   cv, mh, kt, http, report>>

TruncateText ==
    /\ call.fn = "truncate_text" /\ ~call.done
    /\ call' = [call EXCEPT !.done = TRUE,
                            !.result = truncate_text(call.text, call.max_length,
                                                     call.suffix)]
    /\ UNCHANGED <<conversations, heap, message_to_conversation_id, views,
                   cv, mh, kt, http, report>>

\* The applications of build_attachment_content_block: every MIME type of
\* the supported sets, other text types, unsupported types and the empty
\* type, with every payload, with and without a filename.
ClassifiedMimeTypes ==
    SUPPORTED_IMAGE_TYPES \cup SUPPORTED_DOCUMENT_TYPES
        \cup {<<"text", "html">>, <<"image", "bmp">>, <<"application", "zip">>,
              <<"application", "json">>, <<"", "">>}

BuildBlockCalls ==
    {[fn |-> "build_attachment_content_block", content_type |-> content_type,
      data |-> data, filename |-> filename, done |-> FALSE, result |-> None] :
        content_type \in ClassifiedMimeTypes, data \in Payloads,
        filename \in {None, Some("notes.txt")}}

BuildBlock ==
    /\ call.fn = "build_attachment_content_block" /\ ~call.done
    /\ call' = [call EXCEPT !.done = TRUE,
                            !.result = ContentBlock(call.content_type, call.data,
                                                    call.filename)]
    /\ UNCHANGED <<conversations, heap, message_to_conversation_id, views,
                   cv, mh, kt, http, report>>

Calls == ChunkTextCalls \cup TruncateTextCalls \cup BuildBlockCalls

InitUtil == Constructed /\ call \in Calls

NextUtil ==
    \/ ChunkText
    \/ TruncateText
    \/ BuildBlock

SpecUtil == InitUtil /\ [][NextUtil]_vars

\* ================================================================ claims
IsPrefix(s, t) == Len(s) <= Len(t) /\ SubSeq(t, 1, Len(s)) = s

\* The conversations of the table with this starter and this channel.
SessionsOf(author, channel) ==
    {id \in Range(conversations) :
        heap[id].starter = author /\ heap[id].channel = channel}

\* An on_message invocation that has been handed to a conversation and has
\* not returned.
InProgress(k) == mh[k].pc \notin {"idle", "done"} /\ mh[k].conv # 0

ResponseTexts == {response_text(r) : r \in ApiResults \ {"error"}}

\* C1: in every reachable state the table holds at most one conversation per
\* (conversation_starter, channel_id) pair.
C1_OneSessionPerUserChannel ==
    \A id1 \in Range(conversations), id2 \in Range(conversations) :
        (heap[id1].starter = heap[id2].starter
            /\ heap[id1].channel = heap[id2].channel) => id1 = id2

\* C2: when converse runs its duplicate check while the table holds a
\* conversation of its author in its channel, it takes the duplicate branch:
\* it awaits the "already have an active conversation" report, holds no
\* typing task, has issued no request, and changes no table; from there it
\* only returns.
C2_DuplicateStartRejected ==
    [][\A k \in ConverseIds :
        /\ (/\ cv[k].pc = "defer"
            /\ cv'[k].pc # "defer"
            /\ SessionsOf(cv[k].author, cv[k].channel) # {})
           => /\ cv'[k].pc = "send_duplicate"
              /\ cv'[k].typing = "none"
              /\ cv'[k].request = NoRequest
              /\ UNCHANGED <<conversations, heap, views, message_to_conversation_id>>
        /\ (cv[k].pc = "send_duplicate" /\ cv'[k].pc # "send_duplicate")
           => /\ cv'[k].pc = "done"
              /\ cv'[k].outcome \in {"duplicate", "raised"}
              /\ UNCHANGED <<conversations, heap, views, message_to_conversation_id>>
      ]_vars

\* C2 witness: a converse that carries an attachment awaits the duplicate
\* report while its author's conversation in that channel is in the table.
C2_Witness ==
    \E k \in ConverseIds :
        /\ cv[k].pc = "send_duplicate"
        /\ cv[k].attachment
        /\ SessionsOf(cv[k].author, cv[k].channel) # {}

\* C3: for any one conversation at most one follow-up handler is in progress
\* at any time, so every assistant turn of a follow-up directly follows the
\* user turn it answers.
C3_OneFollowUpInProgress ==
    /\ \A k1 \in MessageIds, k2 \in MessageIds :
          (InProgress(k1) /\ InProgress(k2) /\ mh[k1].conv = mh[k2].conv)
              => k1 = k2
    /\ \A id \in ConverseIds : \A i \in DOMAIN heap[id].messages :
          LET t == heap[id].messages[i] IN
          (t.role = "assistant" /\ t.by[1] = "m")
              => /\ i > 1
                 /\ heap[id].messages[i - 1].role = "user"
                 /\ heap[id].messages[i - 1].by = t.by

\* C4: the user turns of follow-up messages stand in a history in the order
\* in which on_message routed the messages (the order of their ids).
C4_UserTurnsInRoutingOrder ==
    \A id \in ConverseIds :
        \A i \in DOMAIN heap[id].messages, j \in DOMAIN heap[id].messages :
            LET t1 == heap[id].messages[i]
                t2 == heap[id].messages[j]
            IN (/\ i < j
                /\ t1.role = "user" /\ t1.by[1] = "m"
                /\ t2.role = "user" /\ t2.by[1] = "m")
               => t1.by[2] < t2.by[2]

\* The user turn and the assistant turn of follow-up k in the history of the
\* conversation it was routed to.
HasUserTurn(k) ==
    \E i \in DOMAIN heap[mh[k].conv].messages :
        LET t == heap[mh[k].conv].messages[i] IN
        t.role = "user" /\ t.by = <<"m", k>>

HasAssistantTurn(k) ==
    \E i \in DOMAIN heap[mh[k].conv].messages :
        LET t == heap[mh[k].conv].messages[i] IN
        t.role = "assistant" /\ t.by = <<"m", k>>

\* C5: when messages.create fails in a follow-up handler, the step leaves
\* every history as it is and the handler awaits the error report; as long
\* as the failure is on record the user turn of the message is in the
\* history and no assistant turn answers it; the handler then only returns,
\* the report delivered or its send raised.
C5_FailedCompletionKeepsUserTurn ==
    [][\A k \in MessageIds :
        /\ (mh[k].pc = "call" /\ mh'[k].api = "error")
           => (mh'[k].pc = "send_error" /\ heap' = heap)
        /\ mh'[k].api = "error" => (HasUserTurn(k)' /\ ~HasAssistantTurn(k)')
        /\ (mh[k].api = "error" /\ mh'[k] # mh[k])
           => (mh'[k].pc = "done"
                 /\ mh'[k].outcome \in {"error_reported", "raised"})
      ]_vars

\* C5 witness: a follow-up whose completion failed has returned after the
\* report, its user turn the last turn of the history.
C5_Witness ==
    \E k \in MessageIds :
        /\ mh[k].pc = "done"
        /\ mh[k].api = "error"
        /\ mh[k].outcome = "error_reported"
        /\ HasUserTurn(k)
        /\ heap[mh[k].conv].messages[Len(heap[mh[k].conv].messages)].by = <<"m", k>>

\* C6: the request a follow-up handler issues carries the whole history of
\* its conversation as it stands when the call is made, the new user turn
\* last, and the parameter set of that conversation; when the call returns a
\* response the history grows by exactly the assistant turn of that call.
C6_RequestCarriesWholeHistory ==
    [][\A k \in MessageIds :
        /\ (mh[k].pc # "call" /\ mh'[k].pc = "call")
           => LET id == mh'[k].conv
                  req == mh'[k].request
              IN /\ req.messages = heap'[id].messages
                 /\ req.messages =
                        Append(heap[id].messages,
                               UserTurn(<<"m", k>>, mh'[k].content))
                 /\ req.params = heap'[id].params
                 /\ req.params = id
        /\ (mh[k].pc = "call" /\ mh'[k].api = "ok")
           => \E text \in ResponseTexts :
                 heap'[mh[k].conv].messages =
                     Append(heap[mh[k].conv].messages,
                            AssistantTurn(<<"m", k>>, text))
      ]_vars

\* C6 witness: a second follow-up is awaiting messages.create with a request
\* of five turns, the history of its conversation.
C6_Witness ==
    \E k \in MessageIds :
        /\ mh[k].pc = "call"
        /\ Len(mh[k].request.messages) >= 5
        /\ mh[k].request.messages = heap[mh[k].conv].messages

\* C7: across every step, the history of a conversation that stays in the
\* table is its earlier history followed by zero or more turns.
C7_HistoryAppendOnly ==
    [][\A id \in Range(conversations) \cap Range(conversations') :
          IsPrefix(heap[id].messages, heap'[id].messages)]_vars

\* C7 witness: a conversation of the table whose history has grown to four
\* turns, a failed follow-up's user turn among them.
C7_Witness ==
    \E id \in Range(conversations) :
        /\ Len(heap[id].messages) >= 4
        /\ \E k \in MessageIds :
              mh[k].conv = id /\ mh[k].api = "error" /\ mh[k].pc = "done"

\* C8: a message is handed only to a conversation whose starter is its
\* author and whose channel is its channel; a turn of a message stands only
\* in the history of the conversation the message was handed to, and only a
\* message handed to a conversation issues a request.
C8_ForeignMessageNeverRouted ==
    /\ \A k \in MessageIds :
          /\ mh[k].conv # 0
             => /\ mh[k].author = heap[mh[k].conv].starter
                /\ mh[k].channel = heap[mh[k].conv].channel
          /\ mh[k].request # NoRequest
             => /\ mh[k].conv # 0
                /\ mh[k].request.params = mh[k].conv
    /\ \A id \in ConverseIds : \A i \in DOMAIN heap[id].messages :
          LET t == heap[id].messages[i] IN
          t.by[1] = "m" => mh[t.by[2]].conv = id

\* C8 witness: a message of another user, not the bot, in the channel of an
\* unpaused conversation of the table was handled without being handed to
\* any conversation.
C8_Witness ==
    \E id \in Range(conversations), k \in MessageIds :
        /\ mh[k].pc = "done" /\ mh[k].conv = 0
        /\ mh[k].channel = heap[id].channel
        /\ mh[k].author \notin {heap[id].starter, BotUser}
        /\ ~heap[id].paused

\* C9: a message of the starter of a conversation of the table, sent in the
\* channel of that conversation, is handed to that conversation.
C9_StarterMessageRouted ==
    [][\A k \in MessageIds :
        (mh[k].pc = "idle" /\ mh'[k].pc # "idle")
           => \A id \in SessionsOf(mh'[k].author, mh'[k].channel) :
                 mh'[k].conv = id
      ]_vars

\* C10: on_message for a message of the bot's own user returns at once: the
\* message is handed to no conversation, starts no typing task, issues no
\* request and leaves every table and every other handler as it is.
C10_OwnMessageDropped ==
    [][\A k \in MessageIds :
        (mh[k].pc = "idle" /\ mh'[k].pc # "idle" /\ mh'[k].author = BotUser)
           => /\ mh'[k].pc = "done"
              /\ mh'[k].conv = 0
              /\ mh'[k].typing = "none"
              /\ mh'[k].request = NoRequest
              /\ mh'[k].api = ""
              /\ UNCHANGED <<conversations, heap, views,
                             message_to_conversation_id, cv>>
      ]_vars

\* C10 witness: a message of the bot was handled in the channel of an
\* unpaused conversation of the table that the bot user started.
C10_Witness ==
    \E k \in MessageIds, id \in Range(conversations) :
        /\ mh[k].pc = "done"
        /\ mh[k].author = BotUser
        /\ heap[id].starter = BotUser
        /\ heap[id].channel = mh[k].channel
        /\ ~heap[id].paused

\* C11: a message handed to a conversation whose paused flag is set has no
\* effect: the handler returns in the step that dispatched it, with no typing
\* task, no attachment fetched, no request and no send, and every table,
\* every history and every other handler is as before.
C11_PausedFollowUpHasNoEffect ==
    [][\A k \in MessageIds :
        (/\ mh[k].pc = "idle" /\ mh'[k].pc # "idle"
         /\ mh'[k].conv # 0
         /\ heap[mh'[k].conv].paused)
           => /\ mh'[k].pc = "done"
              /\ mh'[k].typing = "none"
              /\ mh'[k].fetched = 0
              /\ mh'[k].request = NoRequest
              /\ mh'[k].api = ""
              /\ UNCHANGED <<conversations, heap, views,
                             message_to_conversation_id, cv>>
      ]_vars

\* C11 witness: a message of the starter of a paused conversation of the
\* table, sent in its channel, was handed to it and the handler has returned.
C11_Witness ==
    \E k \in MessageIds :
        /\ mh[k].pc = "done"
        /\ mh[k].outcome = "not_answered"
        /\ mh[k].conv \in Range(conversations)
        /\ heap[mh[k].conv].paused
        /\ mh[k].author = heap[mh[k].conv].starter
        /\ mh[k].channel = heap[mh[k].conv].channel

\* The conversation a converse invocation is to have stored when it returns:
\* in the table under the interaction id, with the caller as starter, the
\* caller's channel, and the history [user turn, assistant turn].
StoredBy(k) ==
    /\ k \in Range(conversations')
    /\ heap'[k].starter = cv[k].author
    /\ heap'[k].channel = cv[k].channel
    /\ heap'[k].messages = <<UserTurn(<<"c", k>>, cv[k].content),
                              AssistantTurn(<<"c", k>>, cv[k].response)>>

\* A converse invocation calls messages.create once, with a one-turn
\* history: the request it enters the call with is its user turn alone, and
\* from the call on it never comes back to a point before the call.
OneCallOneTurn(k) ==
    /\ (cv[k].pc # "call" /\ cv'[k].pc = "call")
       => /\ cv[k].pc \in {"defer", "fetch"}
          /\ cv'[k].request.messages = <<UserTurn(<<"c", k>>, cv'[k].content)>>
    /\ cv[k].pc \notin {"idle", "defer", "fetch"}
       => cv'[k].pc \notin {"idle", "defer", "fetch"}
    /\ cv[k].pc \notin {"idle", "defer", "fetch", "call"} => cv'[k].pc # "call"

C13_TypingTaskNeverLeaked ==
    /\ [](\A k \in ConverseIds : cv[k].pc = "done" => cv[k].typing # "running")
    /\ [](\A k \in MessageIds : mh[k].pc = "done" => mh[k].typing # "running")
    /\ \A k \in ConverseIds :
          (cv[k].typing = "running") ~> (cv[k].typing = "cancelled")
    /\ \A k \in MessageIds :
          (mh[k].typing = "running") ~> (mh[k].typing = "cancelled")

\* C13 witness: a converse has returned through the except block, the error
\* report itself having raised, and its typing task is cancelled.
C13_Witness ==
    \E k \in ConverseIds :
        /\ cv[k].pc = "done"
        /\ cv[k].outcome = "raised"
        /\ cv[k].typing = "cancelled"

\* C14: once messages.create has resolved, a handler awaits no platform send
\* (reply, follow-up, error report) while its typing task is running.
C14_NoSendWhileTyping ==
    /\ \A k \in ConverseIds :
          cv[k].pc \in {"send_noresponse", "send_started", "send_error"}
              => cv[k].typing # "running"
    /\ \A k \in MessageIds :
          mh[k].pc \in {"reply", "reply_text", "send_embed", "send_text",
                        "send_nocontent", "send_error"}
              => mh[k].typing # "running"

\* A cancellation is delivered to a keep_typing task that has not ended:
\* cancel() was called on it and the event loop steps it.
CancellationDelivered(t) ==
    /\ TypingOf(t) = "cancelled"
    /\ kt[t].pos \in {"created", "entering", "sleeping"}
    /\ kt'[t] # kt[t]

\* C15: a keep_typing task that a cancellation is delivered to ends in the
\* cancelled state; a step of a keep_typing task changes no handler and no
\* table; the step in which a handler cancels its task does not take it to
\* the error report, and after it only a failed send does (none here).
C15_CancellationIsCleanStop ==
    [][/\ \A t \in Tasks :
            /\ CancellationDelivered(t) => kt'[t].pos = "cancelled"
            /\ kt'[t] # kt[t]
               => UNCHANGED <<conversations, heap, views,
                              message_to_conversation_id, cv, mh>>
       /\ \A k \in ConverseIds :
            cv'[k].typing = "cancelled" => cv'[k].pc # "send_error"
       /\ \A k \in MessageIds :
            mh'[k].typing = "cancelled" => mh'[k].pc # "send_error"
      ]_vars

\* C15 witness: the task of a follow-up that was answered had slept, was
\* cancelled by the handler when the response arrived, and has ended
\* cancelled; the handler has replied.
C15_Witness ==
    \E k \in MessageIds :
        /\ mh[k].pc = "done" /\ mh[k].outcome = "replied"
        /\ kt[<<"m", k>>].pos = "cancelled"
        /\ kt[<<"m", k>>].slept

\* C16: a keep_typing task that a cancellation is delivered to before its
\* first sleep has elapsed ends in the cancelled state having emitted at
\* most one typing signal.
C16_EarlyCancelAtMostOneSignal ==
    [][\A t \in Tasks :
          (CancellationDelivered(t) /\ ~kt[t].slept)
              => /\ kt'[t].pos = "cancelled"
                 /\ ~kt'[t].slept
                 /\ kt'[t].signals <= 1
      ]_vars

\* C16 witness: a task cancelled during its first sleep has ended cancelled
\* with one signal emitted, and one cancelled before it ever ran with none.
C16_Witness ==
    /\ \E t \in Tasks :
          kt[t].pos = "cancelled" /\ ~kt[t].slept /\ kt[t].signals = 1
    /\ \E t \in Tasks :
          kt[t].pos = "cancelled" /\ ~kt[t].slept /\ kt[t].signals = 0

\* The handlers that are suspended in the fetch of an attachment, each
\* having called _get_http_session.
Fetching ==
    Cardinality({k \in ConverseIds : cv[k].pc = "fetch"})
        + Cardinality({k \in MessageIds : mh[k].pc = "fetch"})

\* C17: as long as the cog has not been unloaded, however the handlers that
\* fetch attachments interleave, one ClientSession at most has been created
\* and every _get_http_session call returned that session, the one in place.
C17_OneSessionOnFirstUse ==
    ~http.unloaded
        => /\ Cardinality(Created(http)) <= 1
           /\ http.given = Created(http)
           /\ http.given \subseteq {http.current}

\* C17 witness: two handlers are suspended in their fetches at the same
\* time, both holding the one session created.
C17_Witness ==
    /\ Fetching = 2
    /\ ~http.unloaded
    /\ Cardinality(Created(http)) = 1
    /\ http.given = {http.current}

\* C18: once cog_unload has run, every handler has returned and no close()
\* is still scheduled, every ClientSession that was created is closed, by
\* exactly one close() call.
C18_SessionsClosedOnceAtShutdown ==
    (http.unloaded /\ InFlight = 0
        /\ \A s \in SessionIds : http.state[s] # "closing")
        => \A s \in Created(http) :
              http.state[s] = "closed" /\ http.closes[s] = 1

\* A platform send of follow-up handler k is delivered in this step: a
\* response message (embed or text fallback), the "No content to send"
\* notice, or the error report.
FollowUpSendDelivered(k) ==
    \/ /\ mh[k].pc \in {"reply", "reply_text", "send_embed", "send_text"}
       /\ mh'[k] = MessageNext(k)
    \/ mh[k].pc = "send_nocontent" /\ mh'[k].outcome = "no_content"
    \/ mh[k].pc = "send_error" /\ mh'[k].outcome = "error_reported"

\* C19: whenever a message that a handler sends for a conversation is
\* delivered (the start message of converse; a reply, a channel send, a
\* notice or an error report of a follow-up), the step records an entry for
\* that message in message_to_conversation_id with the id of the
\* conversation.
C19_EverySentMessageRecorded ==
    [][/\ \A k \in ConverseIds :
            (cv[k].pc = "send_started" /\ cv'[k].outcome = "started")
                => \E e \in message_to_conversation_id' \ message_to_conversation_id :
                      e.conv = k /\ e.msg[1] = "c" /\ e.msg[2] = k
       /\ \A k \in MessageIds :
            FollowUpSendDelivered(k)
                => \E e \in message_to_conversation_id' \ message_to_conversation_id :
                      e.conv = mh[k].conv /\ e.msg[1] = "m" /\ e.msg[2] = k
      ]_vars

\* C20: every reply a follow-up handler sends carries the view that converse
\* created for the conversation the message was handed to.
C20_ReplyCarriesOwnControl ==
    \A k \in MessageIds :
        mh[k].pc \in {"reply", "reply_text", "send_embed", "send_text",
                      "send_nocontent"}
            => mh[k].view = mh[k].conv

\* C21: when the send of an embed that carries a generated response raises,
\* the next send the handler awaits is the plain-text fallback carrying that
\* response: for the start message of converse, for the first reply and for
\* every further channel send of a follow-up.
C21_EmbedRejectedFallsBackToText ==
    [][/\ \A k \in ConverseIds :
            (cv[k].pc = "send_started" /\ cv'[k].pc \notin {"send_started", "done"})
                => cv'[k].pc = "send_text"
       /\ \A k \in MessageIds :
            /\ (mh[k].pc = "reply" /\ mh'[k] # mh[k] /\ mh'[k] # MessageNext(k))
                  => mh'[k].pc = "reply_text"
            /\ (mh[k].pc = "send_embed" /\ mh'[k] # mh[k] /\ mh'[k] # MessageNext(k))
                  => mh'[k].pc = "send_text"
      ]_vars

\* C22: a handler that has returned did not return by an exception, and
\* when its completion call had failed the error report was delivered.
C22_NoFailureEscapes ==
    /\ \A k \in ConverseIds :
          cv[k].pc = "done" => cv[k].outcome # "raised"
    /\ \A k \in MessageIds :
          mh[k].pc = "done"
              => /\ mh[k].outcome # "raised"
                 /\ mh[k].api = "error" => mh[k].outcome = "error_reported"

\* C28: every step a converse takes on the duplicate path, into the report
\* and out of it, leaves conversations, the histories, views and
\* message_to_conversation_id as they are, calls _get_http_session for no
\* attachment, and the handler holds no typing task and no request, on the
\* path and when it has returned.
C28_DuplicateConverseChangesNothing ==
    [][\A k \in ConverseIds :
        (cv'[k] # cv[k]
            /\ (cv'[k].pc = "send_duplicate" \/ cv[k].pc = "send_duplicate"))
           => /\ UNCHANGED <<conversations, heap, views,
                             message_to_conversation_id, http>>
              /\ cv[k].typing = "none" /\ cv'[k].typing = "none"
              /\ cv[k].request = NoRequest /\ cv'[k].request = NoRequest
              /\ cv'[k].content = <<>>
              /\ cv'[k].response = ""
      ]_vars

\* C28 witness: a converse has returned from the duplicate report with no
\* typing task, the conversation of its author still the only one in the
\* table and no ClientSession created.
C28_Witness ==
    \E k \in ConverseIds :
        /\ cv[k].pc = "done"
        /\ cv[k].outcome = "duplicate"
        /\ cv[k].typing = "none"
        /\ Len(conversations) = 1
        /\ Cardinality(Created(http)) = 0

\* C29: a converse that has ended by its error report has left no trace: no
\* conversation under its id, no view of its id in views, no entry of its id
\* in message_to_conversation_id.
C29_FailedConverseLeavesNoTrace ==
    \A k \in ConverseIds :
        (cv[k].pc = "done" /\ cv[k].outcome = "error_reported")
            => /\ k \notin Range(conversations)
               /\ heap[k] = NoConversation
               /\ \A u \in Users : views[u] # k
               /\ \A e \in message_to_conversation_id : e.conv # k

\* C30: once a conversation has been removed from the table, no step appends
\* a turn to its history and no handler issues a request with it.
C30_RemovedSessionUntouched ==
    [][\A id \in ConverseIds :
        (heap[id] # NoConversation /\ id \notin Range(conversations))
           => /\ heap'[id].messages = heap[id].messages
              /\ \A k \in MessageIds :
                    (mh[k].pc # "call" /\ mh'[k].pc = "call") => mh'[k].conv # id
      ]_vars

\* The content the claim expects for a message whose attachments resolved
\* as atts: the text block, then one block for every attachment that was
\* fetched and is of a supported type, in order.
RECURSIVE ExpectedBlocks(_)
ExpectedBlocks(atts) ==
    IF atts = <<>> THEN <<>>
    ELSE LET a == atts[Len(atts)]
             rest == ExpectedBlocks(SubSeq(atts, 1, Len(atts) - 1))
         IN IF a.ok /\ build_attachment_content_block(a.content_type) # NoBlock
            THEN Append(rest, build_attachment_content_block(a.content_type))
            ELSE rest

\* C24: while a follow-up handler builds and uses its user turn, every
\* attachment has been fetched at most once, all of them once the call is
\* made, and the content is the text block followed by the blocks of the
\* attachments fetched and classified so far, in attachment order; the user
\* turn of the request carries exactly that content.
C24_UserTurnContent ==
    \A k \in MessageIds :
        mh[k].pc \notin {"idle", "done"}
            => /\ Len(mh[k].atts) = mh[k].fetched
               /\ mh[k].fetched <= mh[k].attachments
               /\ mh[k].pc # "fetch" => mh[k].fetched = mh[k].attachments
               /\ mh[k].content = <<"text">> \o ExpectedBlocks(mh[k].atts)
               /\ mh[k].pc = "call"
                    => mh[k].request.messages[Len(mh[k].request.messages)]
                           = UserTurn(<<"m", k>>,
                                      <<"text">> \o ExpectedBlocks(mh[k].atts))

\* C24 witness: a message with a PDF and then an image, both fetched, is at
\* its call with the content text, document, image.
C24_Witness ==
    \E k \in MessageIds :
        /\ mh[k].pc = "call"
        /\ Len(mh[k].atts) = 2
        /\ mh[k].atts[1].ok /\ mh[k].atts[2].ok
        /\ mh[k].content = <<"text", "document", "image">>

\* Whether a text holds the whole of a string of the given name and length.
HoldsWhole(text, name, len) ==
    \E i \in DOMAIN text : text[i] = Piece(name, 1, len)

\* The handlers a completion error carrying a status code and a non-blank
\* message was raised to.
RaisedWithStatusAndMessage(t) ==
    /\ report[t].error # <<>>
    /\ report[t].error[1].status # <<>>
    /\ report[t].error[1].message # <<>>
    /\ ~IsBlank(report[t].error[1].message[1])

\* The handler is awaiting its error report or has returned after it, having
\* sent nothing else to the user.
OneErrorReport(t) ==
    IF t[1] = "c"
    THEN \/ cv[t[2]].pc = "send_error"
         \/ cv[t[2]].pc = "done" /\ cv[t[2]].outcome \in {"error_reported", "raised"}
    ELSE \/ mh[t[2]].pc = "send_error"
         \/ mh[t[2]].pc = "done" /\ mh[t[2]].outcome \in {"error_reported", "raised"}

\* C23 as stated: when the completion call raises an error with status
\* code s and non-blank message m, the handler sends exactly one error
\* report, whose text contains m and "Status: s".
C23_ReportHoldsMessageAndStatus ==
    \A t \in Tasks :
        RaisedWithStatusAndMessage(t)
            => LET e == report[t].error[1] IN
               /\ OneErrorReport(t)
               /\ HoldsWhole(report[t].description, "message", e.message[1].len)
               /\ HoldsWhole(report[t].description, "Status: {status}",
                             8 + Digits(e.status[1]))

\* C23 amended: the handler sends exactly one error report.  From converse
\* its text contains m and "Status: s"; from on_message it contains m when
\* m has at most 4000 characters, and "Status: s" when m, the blank line
\* and "Status: s" together have at most 4000 characters.
C23_ReportHoldsWhatFits ==
    \A t \in Tasks :
        RaisedWithStatusAndMessage(t)
            => LET e == report[t].error[1]
                   m == e.message[1].len
                   s == 8 + Digits(e.status[1])
               IN
               /\ OneErrorReport(t)
               /\ (t[1] = "c" \/ m <= MaxErrorDescription)
                     <=> HoldsWhole(report[t].description, "message", m)
               /\ (t[1] = "c" \/ m + 2 + s <= MaxErrorDescription)
                     <=> HoldsWhole(report[t].description, "Status: {status}", s)

\* C23 witness: on_message reported an error whose description was longer
\* than the limit and was cut after the status line.
C23_Witness ==
    \E k \in MessageIds :
        /\ RaisedWithStatusAndMessage(<<"m", k>>)
        /\ report[<<"m", k>>].error[1].message[1].len = 3966
        /\ report[<<"m", k>>].error[1].type = RateLimitErrorType
        /\ TextLen(report[<<"m", k>>].description) > MaxErrorDescription
        /\ mh[k].pc = "done" /\ mh[k].outcome = "error_reported"

\* The concatenation of a list of strings, in order.
RECURSIVE Concat(_)
Concat(chunks) ==
    IF chunks = <<>> THEN <<>> ELSE Head(chunks) \o Concat(Tail(chunks))

\* C26: for every text and chunk size n >= 1 the chunks of chunk_text
\* concatenate to the text, none is empty, all but the last have exactly n
\* characters and the last at most n; a text of exactly n characters gives
\* one chunk equal to it and the empty text gives no chunk.
C26_ChunksPartitionText ==
    (call.fn = "chunk_text" /\ call.done)
        => LET chunks == call.result
               n == call.chunk_size
           IN
           /\ Concat(chunks) = call.text
           /\ \A i \in DOMAIN chunks : Len(chunks[i]) >= 1
           /\ \A i \in DOMAIN chunks : i < Len(chunks) => Len(chunks[i]) = n
           /\ chunks # <<>> => Len(chunks[Len(chunks)]) <= n
           /\ Len(call.text) = n => chunks = <<call.text>>
           /\ call.text = <<>> => chunks = <<>>

\* C26 witness: a text of five characters was cut into chunks of two, two
\* and one characters.
C26_Witness ==
    /\ call.fn = "chunk_text" /\ call.done
    /\ call.chunk_size = 2 /\ Len(call.text) = 5
    /\ Len(call.result) = 3 /\ Len(call.result[3]) = 1

\* C27: truncate_text(None, n) is None; a text of at most n characters is
\* returned unchanged; a longer one gives its first n characters followed
\* by the suffix.
C27_TruncateAtBound ==
    (call.fn = "truncate_text" /\ call.done)
        => /\ call.text = None => call.result = None
           /\ \A t \in Texts :
                 call.text = Some(t)
                     => /\ Len(t) <= call.max_length => call.result = Some(t)
                        /\ Len(t) > call.max_length
                              => /\ call.result # None
                                 /\ Len(call.result[1])
                                        = call.max_length + Len(call.suffix)
                                 /\ \A i \in 1..call.max_length :
                                        call.result[1][i] = t[i]
                                 /\ \A i \in 1..Len(call.suffix) :
                                        call.result[1][call.max_length + i]
                                            = call.suffix[i]

\* C27 witness: a text was truncated at exactly its length and came back
\* unchanged.
C27_Witness ==
    /\ call.fn = "truncate_text" /\ call.done
    /\ call.text # None
    /\ Len(call.text[1]) = call.max_length /\ call.max_length = MaxChunkSize
    /\ call.result = call.text

\* C25: build_attachment_content_block returns None for every payload when
\* the MIME type is not one of the four image types, not application/pdf,
\* not text/plain, text/markdown or text/csv and does not start with
\* "text/", the empty type included; for a supported type it returns an
\* image, a document or a text block respectively.
C25_UnsupportedTypeGivesNoBlock ==
    (call.fn = "build_attachment_content_block" /\ call.done)
        => LET t == call.content_type
               image == t \in {<<"image", "jpeg">>, <<"image", "png">>,
                               <<"image", "gif">>, <<"image", "webp">>}
               pdf == t = <<"application", "pdf">>
               text == \/ t \in {<<"text", "plain">>, <<"text", "markdown">>,
                                  <<"text", "csv">>}
                       \/ t[1] = "text"
           IN
           /\ ~(image \/ pdf \/ text) <=> call.result = None
           /\ image => call.result[1].type = "image"
           /\ pdf => call.result[1].type = "document"
           /\ text => call.result[1].type = "text"

\* C25 witness: the empty MIME type with a payload that is not valid UTF-8
\* gave no block.
C25_Witness ==
    /\ call.fn = "build_attachment_content_block" /\ call.done
    /\ call.content_type = <<"", "">>
    /\ call.data = <<169, 195>>
    /\ call.result = None

\* C31: a step of the on_message invocation handling a follow-up routed to
\* session A leaves the starter, channel, parameter set, paused flag and
\* history of every other session unchanged, whoever started it and in
\* whichever channel.
C31_FollowUpLeavesOtherSessions ==
    [][\A k \in MessageIds :
          mh'[k] # mh[k]
              => \A b \in ConverseIds :
                    b # mh'[k].conv => heap'[b] = heap[b]]_vars

\* C31 witness: a follow-up of one user has been answered in a session
\* while another user holds a session in the same channel, still at its
\* two opening turns.
C31_Witness ==
    \E k \in MessageIds, a, b \in ConverseIds :
        /\ mh[k].pc = "done" /\ mh[k].outcome = "replied" /\ mh[k].conv = a
        /\ a # b
        /\ heap[b] # NoConversation
        /\ heap[b].channel = heap[a].channel
        /\ heap[b].starter # heap[a].starter
        /\ Len(heap[a].messages) = 4
        /\ Len(heap[b].messages) = 2

\* The user turns of follow-up k in the histories of all sessions.
RECURSIVE UserTurnsIn(_, _)
UserTurnsIn(messages, k) ==
    IF messages = <<>> THEN 0
    ELSE (IF Head(messages).role = "user" /\ Head(messages).by = <<"m", k>>
          THEN 1 ELSE 0) + UserTurnsIn(Tail(messages), k)

RECURSIVE UserTurnsOf(_, _)
UserTurnsOf(k, ids) ==
    IF ids = {} THEN 0
    ELSE LET b == CHOOSE b \in ids : TRUE IN
         UserTurnsIn(heap[b].messages, k) + UserTurnsOf(k, ids \ {b})

\* C32: one on_message invocation appends at most one user turn in total
\* across all sessions and issues at most one completion call (it comes to
\* its call once, from the dispatch or from the last attachment fetch),
\* also when several sessions match the author and channel of the message.
C32_OneSessionPerMessage ==
    [][\A k \in MessageIds :
          /\ UserTurnsOf(k, ConverseIds)' <= 1
          /\ (mh'[k].pc = "call" /\ mh[k].pc # "call")
                => /\ mh[k].pc \in {"idle", "fetch"}
                   /\ UserTurnsOf(k, ConverseIds) = 0
          /\ mh[k].pc \notin {"idle", "fetch"}
                => UserTurnsOf(k, ConverseIds)' = UserTurnsOf(k, ConverseIds)]_vars

\* C32 witness: a follow-up has been answered while two sessions of its
\* author in its channel were in the table; its user turn is in one of
\* them only.
C32_Witness ==
    \E k \in MessageIds :
        /\ mh[k].pc = "done" /\ mh[k].outcome = "replied"
        /\ Cardinality(SessionsOf(mh[k].author, mh[k].channel)) = 2
        /\ \A b \in SessionsOf(mh[k].author, mh[k].channel) :
              Len(heap[b].messages) >= 2
        /\ UserTurnsOf(k, ConverseIds) = 1

\* The keep_typing tasks that were created and on which cancel() has not
\* been called.
UncancelledTasks == {t \in Tasks : TypingOf(t) = "running"}

\* C33: a handler invocation creates at most one keep_typing task (its
\* task handle is set once, from None), and in every reachable state the
\* uncancelled keep_typing tasks are at most as many as the handler
\* invocations in progress, each held by one of them.
C33_OneTypingTaskPerHandler ==
    /\ [](Cardinality(UncancelledTasks) <= InFlight)
    /\ [](\A k \in ConverseIds :
             cv[k].typing = "running" => cv[k].pc \notin {"idle", "done"})
    /\ [](\A k \in MessageIds :
             mh[k].typing = "running" => mh[k].pc \notin {"idle", "done"})
    /\ [][\A t \in Tasks :
             (TypingOf(t)' = "running" /\ TypingOf(t) # "running")
                 => TypingOf(t) = "none"]_vars

\* C33 witness: two handlers are in progress, each with its own running
\* keep_typing coroutine.
C33_Witness ==
    /\ InFlight = 2
    /\ Cardinality(UncancelledTasks) = 2
    /\ \A t \in UncancelledTasks : kt[t].pos = "sleeping"

\* The turns of a role among the first n turns of a history.
TurnsOfRole(messages, n, role) ==
    Cardinality({i \in 1..n : messages[i].role = role})

\* C34: the history of every session converse has created begins with a
\* user turn, every prefix of it has at least as many user turns as
\* assistant turns, and every assistant turn stands after the user turn of
\* the invocation it answers.
C34_UserTurnBeforeAnswer ==
    \A id \in ConverseIds :
        heap[id] # NoConversation
            => LET messages == heap[id].messages IN
               /\ messages # <<>>
               /\ messages[1].role = "user"
               /\ \A n \in 1..Len(messages) :
                     TurnsOfRole(messages, n, "user")
                         >= TurnsOfRole(messages, n, "assistant")
               /\ \A i \in DOMAIN messages :
                     messages[i].role = "assistant"
                         => \E j \in 1..(i - 1) :
                               /\ messages[j].role = "user"
                               /\ messages[j].by = messages[i].by

\* C34 witness: two follow-ups were handled at the same time, so that the
\* history holds their two user turns one after the other and then their
\* two answers.
C34_Witness ==
    \E id \in ConverseIds :
        /\ heap[id] # NoConversation
        /\ Len(heap[id].messages) = 6
        /\ heap[id].messages[3].role = "user"
        /\ heap[id].messages[4].role = "user"
        /\ heap[id].messages[5].role = "assistant"
        /\ heap[id].messages[6].role = "assistant"

====
